---- MODULE Spec2Model ----
(***************************************************************************)
(* OceanEye (src/app.py): the Flask application that classifies the        *)
(* pollution level of an ocean photograph from colour statistics.          *)
(*                                                                         *)
(* Representation choices.                                                 *)
(*  - The resampled 200x200 array `pixels` is a bag (multiset) of RGB      *)
(*    triples: every statistic the code computes (mask, means, dark count) *)
(*    is invariant under permutation of the pixels.                        *)
(*  - Floats that the code rounds to 3 decimals (saturation, brightness)   *)
(*    are integers in thousandths; confidence is in hundredths.            *)
(*  - colorsys.rgb_to_hsv is computed exactly, as fractions.  round() of   *)
(*    an exact fraction that lies half way between two integers depends,   *)
(*    in the program, on the binary floating point error of the preceding  *)
(*    divisions: there the model allows either neighbour.  Everywhere else *)
(*    the rounded float equals the rounded fraction.                       *)
(*  - A file name is a sequence of one-character strings.                  *)
(*  - The dash of two description texts is written "-".                    *)
(***************************************************************************)
EXTENDS Bags, FiniteSets, Integers, Sequences, TLC

VARIABLES NUMPY_OK, PIL_OK, pc, request, body, pixels, stats, response

vars == <<NUMPY_OK, PIL_OK, pc, request, body, pixels, stats, response>>

(***************************************************************************)
(* Bounds of the model.                                                    *)
(***************************************************************************)
\* an input image is made of at most MaxBlocks blocks of uniform colour
MaxBlocks == 2

(***************************************************************************)
(* Program constants.                                                      *)
(***************************************************************************)
ALLOWED_EXTENSIONS ==
    { <<"p","n","g">>, <<"j","p","g">>, <<"j","p","e","g">>,
      <<"w","e","b","p">>, <<"b","m","p">> }

\* img.resize((200, 200), ...)
Side == 200

None == "None"

(***************************************************************************)
(* str.lower() on the characters that occur in the file names below.       *)
(***************************************************************************)
LowerChar(c) ==
    CASE c = "A" -> "a" [] c = "B" -> "b" [] c = "E" -> "e" [] c = "G" -> "g"
      [] c = "J" -> "j" [] c = "M" -> "m" [] c = "N" -> "n" [] c = "P" -> "p"
      [] c = "W" -> "w" [] c = "X" -> "x" [] c = "T" -> "t"
      [] OTHER -> c

Lower(s) == [i \in 1..Len(s) |-> LowerChar(s[i])]

\* filename.rsplit('.', 1)[1]: what follows the last '.'
RSplitExt(filename) ==
    LET dots == {i \in 1..Len(filename) : filename[i] = "."}
        last == CHOOSE i \in dots : \A j \in dots : j <= i
    IN  SubSeq(filename, last + 1, Len(filename))

allowed_file(filename) ==
    /\ \E i \in 1..Len(filename) : filename[i] = "."
    /\ Lower(RSplitExt(filename)) \in ALLOWED_EXTENSIONS

(***************************************************************************)
(* analyze_water_color: the statistics.                                    *)
(***************************************************************************)
\* channel ch (1 = R, 2 = G, 3 = B) summed over the pixels of a bag
RECURSIVE SumOver(_, _, _)
SumOver(bag, S, ch) ==
    IF S = {} THEN 0
    ELSE LET p == CHOOSE q \in S : TRUE
         IN  p[ch] * bag[p] + SumOver(bag, S \ {p}, ch)

ChannelSum(bag, ch) == SumOver(bag, BagToSet(bag), ch)

\* mask = (R > 10) | (G > 10) | (B > 10)
mask(p) == p[1] > 10 \/ p[2] > 10 \/ p[3] > 10

\* pixels[mask]
Masked(px) ==
    LET S == {p \in BagToSet(px) : mask(p)}
    IN  [p \in S |-> px[p]]

valid_pixels_NoFallback(px) == Masked(px)

\* if len(valid_pixels) == 0: valid_pixels = pixels.reshape(-1, 3)
valid_pixels(px) ==
    IF BagCardinality(Masked(px)) = 0 THEN px ELSE Masked(px)

\* int(np.mean(column)) of a non-empty column: the sum is exact in float64
\* and int() truncates, so this is the floor of the exact mean
IntMean(bag, ch) == ChannelSum(bag, ch) \div BagCardinality(bag)

\* np.mean of an empty column is nan, and int(nan) raises ValueError
MeanRaises(bag) == BagCardinality(bag) = 0

UpperHexDigits ==
    <<"0","1","2","3","4","5","6","7","8","9","A","B","C","D","E","F">>

\* f'{n:02x}'
HexDigits ==
    <<"0","1","2","3","4","5","6","7","8","9","a","b","c","d","e","f">>

Hex02_Upper(n) ==
    UpperHexDigits[(n \div 16) + 1] \o UpperHexDigits[(n % 16) + 1]

Hex02(n) == HexDigits[(n \div 16) + 1] \o HexDigits[(n % 16) + 1]

dominant_hex(r, g, b) == "#" \o Hex02(r) \o Hex02(g) \o Hex02(b)

Max3(a, b, c) == IF a >= b /\ a >= c THEN a ELSE IF b >= c THEN b ELSE c

Min3(a, b, c) == IF a <= b /\ a <= c THEN a ELSE IF b <= c THEN b ELSE c

\* without "% 1.0"
rgb_to_hsv_NoMod(r, g, b) ==
    LET maxc   == Max3(r, g, b)
        minc   == Min3(r, g, b)
        rangec == maxc - minc
        h6     == IF r = maxc THEN g - b
                  ELSE IF g = maxc THEN 2 * rangec + (b - r)
                  ELSE 4 * rangec + (r - g)
    IN  IF minc = maxc
        THEN [hn |-> 0, hd |-> 1, sn |-> 0, sd |-> 1,
              vn |-> 1000 * maxc, vd |-> 255]
        ELSE [hn |-> 60 * h6, hd |-> rangec,
              sn |-> 1000 * rangec, sd |-> maxc,
              vn |-> 1000 * maxc, vd |-> 255]

\* colorsys.rgb_to_hsv(r/255, g/255, b/255) as exact fractions:
\*   h * 360 = hn / hd,  s * 1000 = sn / sd,  v * 1000 = vn / vd
rgb_to_hsv(r, g, b) ==
    LET maxc   == Max3(r, g, b)
        minc   == Min3(r, g, b)
        rangec == maxc - minc
        \* h before "/ 6.0", times rangec
        h6     == IF r = maxc THEN g - b
                  ELSE IF g = maxc THEN 2 * rangec + (b - r)
                  ELSE 4 * rangec + (r - g)
    IN  IF minc = maxc
        THEN [hn |-> 0, hd |-> 1, sn |-> 0, sd |-> 1,
              vn |-> 1000 * maxc, vd |-> 255]
        ELSE [hn |-> (60 * h6) % (360 * rangec), hd |-> rangec,
              sn |-> 1000 * rangec, sd |-> maxc,
              vn |-> 1000 * maxc, vd |-> 255]

\* round(n / d) for n >= 0, d > 0: the nearest integer; both neighbours
\* when n / d is exactly half way (see the header)
Round(n, d) ==
    LET q == n \div d
        r == n % d
    IN  IF 2 * r < d THEN {q}
        ELSE IF 2 * r > d THEN {q + 1}
        ELSE {q, q + 1}

\* counted over the valid pixels only
dark_pixels_ValidOnly(px) ==
    LET S == {p \in BagToSet(px) : mask(p) /\ p[1] < 50 /\ p[2] < 50 /\ p[3] < 50}
    IN  BagCardinality([p \in S |-> px[p]])

\* pixels with R < 50 and G < 50 and B < 50, counted over the whole array
dark_pixels(px) ==
    LET S == {p \in BagToSet(px) : p[1] < 50 /\ p[2] < 50 /\ p[3] < 50}
    IN  BagCardinality([p \in S |-> px[p]])

red_dominant_By50(r, g, b) == (r > g + 50) /\ (r > b + 50)

red_dominant(r, g, b) == (r > g + 40) /\ (r > b + 40)

Abs(x) == IF x < 0 THEN -x ELSE x

brown_like(r, g, b) ==
    r > 100 /\ g > 60 /\ b < 80 /\ Abs(r - g) < 80 /\ r > b

\* the local variables of analyze_water_color before the decision table;
\* a set because of the half way cases of round()
ColorStats(px) ==
    LET vp  == valid_pixels(px)
        r   == IntMean(vp, 1)
        g   == IntMean(vp, 2)
        b   == IntMean(vp, 3)
        hsv == rgb_to_hsv(r, g, b)
    IN  { [avg_r |-> r, avg_g |-> g, avg_b |-> b,
           dominant_hex |-> dominant_hex(r, g, b),
           hue_deg |-> h, saturation |-> s, brightness |-> v,
           dark_pixels |-> dark_pixels(px),
           total_pixels |-> BagCardinality(px),
           red_dominant |-> red_dominant(r, g, b),
           brown_like |-> brown_like(r, g, b)] :
          h \in Round(hsv.hn, hsv.hd),
          s \in Round(hsv.sn, hsv.sd),
          v \in Round(hsv.vn, hsv.vd) }

(***************************************************************************)
(* analyze_water_color: the decision table (if / elif chain) and the       *)
(* returned dict.  dark_ratio > 0.35 is dark_pixels / total_pixels > 0.35, *)
(* compared here without division; saturation and brightness thresholds   *)
(* are in thousandths, confidence in hundredths.                           *)
(***************************************************************************)
\* the assignments of the branch of CRITICAL
Branch_CRITICAL ==
    [level          |-> "CRITICAL",
     contamination  |-> "Oil Spill / Chemical Dumping",
     description    |-> "Critical pollution detected. Extremely dark water indicates oil spill or heavy chemical contamination. Immediate intervention required.",
     recommendation |-> "Alert Coast Guard & Environmental Agencies Immediately",
     confidence     |-> 90]

\* the assignments of the branch of SEVERE
Branch_SEVERE ==
    [level          |-> "SEVERE",
     contamination  |-> "Red Tide / Toxic Algal Bloom",
     description    |-> "Severe pollution detected. Red-tinted water indicates harmful algal bloom (Red Tide) - toxic to marine life and humans.",
     recommendation |-> "Avoid water contact. Notify environmental protection agencies.",
     confidence     |-> 87]

\* the assignments of the branch of HIGH
Branch_HIGH ==
    [level          |-> "HIGH",
     contamination  |-> "Sewage / Industrial Sediment",
     description    |-> "High pollution detected. Brown/murky water suggests heavy sediment load, sewage discharge, or industrial waste runoff.",
     recommendation |-> "Conduct water sampling. Report to water authority.",
     confidence     |-> 82]

\* the assignments of the branch of MODERATE
Branch_MODERATE ==
    [level          |-> "MODERATE",
     contamination  |-> "Eutrophication (Nutrient Overload)",
     description    |-> "Moderate pollution. Yellow-green color indicates eutrophication from agricultural runoff or sewage - reduces oxygen in water.",
     recommendation |-> "Monitor regularly. Reduce nutrient discharge upstream.",
     confidence     |-> 80]

\* the assignments of the branch of MILD
Branch_MILD ==
    [level          |-> "MILD",
     contamination  |-> "Algal Growth / Chlorophyll Increase",
     description    |-> "Mild pollution detected. Green tint indicates early algal growth caused by excess nutrients. Still manageable.",
     recommendation |-> "Schedule monitoring. Investigate nearby discharge points.",
     confidence     |-> 78]

\* the assignments of the branch of CLEAN
Branch_CLEAN ==
    [level          |-> "CLEAN",
     contamination  |-> "None Detected",
     description    |-> "Water appears healthy. Clear blue color indicates good water quality with normal oxygen levels and low contamination.",
     recommendation |-> "Continue regular environmental monitoring.",
     confidence     |-> 88]

DecisionTable_SevereFirst(st) ==
    IF st.red_dominant \/ (st.hue_deg > 345 \/ st.hue_deg < 15)
    THEN Branch_SEVERE
    ELSE IF \/ st.dark_pixels * 100 > 35 * st.total_pixels
            \/ (st.brightness < 200 /\ st.saturation > 100)
    THEN Branch_CRITICAL
    ELSE IF st.brown_like
            \/ (st.hue_deg > 25 /\ st.hue_deg < 50 /\ st.saturation > 250)
    THEN Branch_HIGH
    ELSE IF st.hue_deg > 55 /\ st.hue_deg < 100 /\ st.saturation > 300
    THEN Branch_MODERATE
    ELSE IF st.hue_deg > 100 /\ st.hue_deg < 160 /\ st.saturation > 200
    THEN Branch_MILD
    ELSE Branch_CLEAN

DecisionTable_NoElse(st) ==
    IF \/ st.dark_pixels * 100 > 35 * st.total_pixels
       \/ (st.brightness < 200 /\ st.saturation > 100)
    THEN Branch_CRITICAL
    ELSE IF st.red_dominant \/ (st.hue_deg > 345 \/ st.hue_deg < 15)
    THEN Branch_SEVERE
    ELSE IF st.brown_like
            \/ (st.hue_deg > 25 /\ st.hue_deg < 50 /\ st.saturation > 250)
    THEN Branch_HIGH
    ELSE IF st.hue_deg > 55 /\ st.hue_deg < 100 /\ st.saturation > 300
    THEN Branch_MODERATE
    ELSE IF st.hue_deg > 100 /\ st.hue_deg < 160 /\ st.saturation > 200
    THEN Branch_MILD
    ELSE IF st.hue_deg > 160 /\ st.hue_deg < 345
    THEN Branch_CLEAN
    ELSE [Branch_CLEAN EXCEPT !.level = "unassigned"]

DecisionTable_Inclusive(st) ==
    IF \/ st.dark_pixels * 100 > 35 * st.total_pixels
       \/ (st.brightness < 200 /\ st.saturation > 100)
    THEN Branch_CRITICAL
    ELSE IF st.red_dominant \/ (st.hue_deg > 345 \/ st.hue_deg < 15)
    THEN Branch_SEVERE
    ELSE IF st.brown_like
            \/ (st.hue_deg >= 25 /\ st.hue_deg <= 50 /\ st.saturation > 250)
    THEN Branch_HIGH
    ELSE IF st.hue_deg > 55 /\ st.hue_deg < 100 /\ st.saturation > 300
    THEN Branch_MODERATE
    ELSE IF st.hue_deg > 100 /\ st.hue_deg < 160 /\ st.saturation > 200
    THEN Branch_MILD
    ELSE Branch_CLEAN

\* lines 92-138
DecisionTable(st) ==
    IF \/ st.dark_pixels * 100 > 35 * st.total_pixels
       \/ (st.brightness < 200 /\ st.saturation > 100)
    THEN Branch_CRITICAL
    ELSE IF st.red_dominant \/ (st.hue_deg > 345 \/ st.hue_deg < 15)
    THEN Branch_SEVERE
    ELSE IF st.brown_like
            \/ (st.hue_deg > 25 /\ st.hue_deg < 50 /\ st.saturation > 250)
    THEN Branch_HIGH
    ELSE IF st.hue_deg > 55 /\ st.hue_deg < 100 /\ st.saturation > 300
    THEN Branch_MODERATE
    ELSE IF st.hue_deg > 100 /\ st.hue_deg < 160 /\ st.saturation > 200
    THEN Branch_MILD
    ELSE Branch_CLEAN

Verdict_Swapped(st) ==
    LET d == DecisionTable(st)
    IN  [pollution_level    |-> d.level,
         confidence         |-> d.confidence,
         dominant_color     |-> st.dominant_hex,
         avg_hue            |-> st.hue_deg,
         avg_saturation     |-> st.brightness,
         avg_brightness     |-> st.saturation,
         contamination_type |-> d.contamination,
         description        |-> d.description,
         recommendation     |-> d.recommendation,
         avg_rgb            |-> <<st.avg_r, st.avg_g, st.avg_b>>]

\* the returned dict
Verdict(st) ==
    LET d == DecisionTable(st)
    IN  [pollution_level    |-> d.level,
         confidence         |-> d.confidence,
         dominant_color     |-> st.dominant_hex,
         avg_hue            |-> st.hue_deg,
         avg_saturation     |-> st.saturation,
         avg_brightness     |-> st.brightness,
         contamination_type |-> d.contamination,
         description        |-> d.description,
         recommendation     |-> d.recommendation,
         avg_rgb            |-> <<st.avg_r, st.avg_g, st.avg_b>>]

\* the outcomes of analyze_water_color on the resampled array px: the locals
\* and the returned dict, or the exception raised
analyze_water_color(px) ==
    IF MeanRaises(valid_pixels(px))
    THEN { [raised |-> TRUE, error |-> "cannot convert float NaN to integer",
            locals |-> None, result |-> None] }
    ELSE { [raised |-> FALSE, error |-> None,
            locals |-> st, result |-> Verdict(st)] : st \in ColorStats(px) }

(***************************************************************************)
(* Inputs.  A resampled image is a bag of Side * Side pixels made of at    *)
(* most MaxBlocks blocks of one colour each: the first block takes its     *)
(* colour from Palette, the others (background, letterboxing) from         *)
(* Backdrop; the blocks are delimited by pixel counts taken from Cuts.     *)
(***************************************************************************)
NPixels == Side * Side

Palette ==
    { <<0, 0, 0>>, <<10, 10, 10>>, <<0, 11, 0>>, <<49, 49, 49>>,
      <<50, 40, 40>>, <<255, 0, 0>>, <<255, 0, 1>>, <<140, 90, 50>>,
      <<100, 150, 200>>, <<5, 10, 255>>,
      <<60, 21, 8>>, <<60, 8, 21>>, <<160, 125, 100>>, <<160, 150, 100>>,
      <<160, 155, 100>>, <<140, 200, 110>>, <<110, 200, 170>>,
      <<160, 140, 100>>, <<200, 220, 100>>, <<100, 200, 120>>,
      <<110, 120, 70>> }

Backdrop ==
    { <<0, 0, 0>>, <<10, 10, 10>>, <<49, 49, 49>>, <<50, 50, 50>>,
      <<255, 255, 255>>, <<200, 30, 30>>, <<30, 60, 90>> }

Cuts == {1, 14000, 14001, 25999, 26000, NPixels}

Block(c, n) == IF n = 0 THEN EmptyBag ELSE [p \in {c} |-> n]

\* the images whose first from pixels are laid out already, with k blocks to go
RECURSIVE Layouts(_, _, _)
Layouts(k, from, first) ==
    LET colours == IF first THEN Palette ELSE Backdrop
    IN  IF k = 1
        THEN { Block(c, NPixels - from) : c \in colours }
        ELSE UNION { { Block(c, cut - from) (+) rest :
                           c \in colours, rest \in Layouts(k - 1, cut, FALSE) } :
                     cut \in {x \in Cuts : x >= from} }

Images == Layouts(MaxBlocks, 0, TRUE)

\* the bytes of the uploaded file: not an image at all (Image.open raises),
\* an image file cut short (Image.open reads the header, convert raises when
\* it loads the data), or an image, given by what it resamples to
Bodies ==
    { [kind |-> "not_an_image", resampled |-> EmptyBag],
      [kind |-> "truncated", resampled |-> EmptyBag] }
    \cup { [kind |-> "image", resampled |-> img] : img \in Images }

Filenames ==
    { << >>, <<"a">>, <<"p","n","g">>,
      <<"a",".","p","n","g">>, <<"A",".","J","P","G">>,
      <<"a",".","b",".","w","e","b","p">>, <<"a",".","j","p","e","g">>,
      <<"a",".","b","m","p">>,
      <<"a",".","t","x","t">>, <<"a",".","g","i","f">>,
      <<"a",".","p","n","g",".">>, <<"a",".","p","n","g",".","e","x","e">> }

ContentTypes == {"image/png", "text/plain"}

UploadedFiles ==
    [filename : Filenames, content_type : ContentTypes]

\* request.files: the multipart file fields by name
FilesOf(field, f) == [k \in {field} |-> f]

NoFiles == [k \in {} |-> None]

Requests ==
    { [method |-> "POST", path |-> "/analyze", files |-> FilesOf("image", f)] :
      f \in UploadedFiles }
    \cup { [method |-> "POST", path |-> "/analyze", files |-> fs] :
           fs \in { NoFiles,
                    FilesOf("photo", [filename |-> <<"a",".","p","n","g">>,
                                      content_type |-> "image/png"]) } }
    \cup { [method |-> "GET", path |-> "/health", files |-> NoFiles] }
    \cup { [method |-> "OPTIONS", path |-> p, files |-> NoFiles] :
           p \in {"/", "/analyze"} }

(***************************************************************************)
(* Responses.                                                              *)
(***************************************************************************)
\* jsonify(payload), status
Jsonify(payload, status) ==
    [status |-> status, mimetype |-> "application/json", json |-> payload,
     headers |-> [k \in {} |-> None]]

\* @app.after_request
add_cors_headers(resp) ==
    [resp EXCEPT !.headers =
        [k \in {"Access-Control-Allow-Origin"} |-> "*"]
        @@ [k \in {"Access-Control-Allow-Methods"} |-> "GET, POST, OPTIONS"]
        @@ [k \in {"Access-Control-Allow-Headers"} |-> "Content-Type"]
        @@ @]

(***************************************************************************)
(* The state machine: one request at a time is received, handled by the    *)
(* view function of its route (followed by add_cors_headers) and answered. *)
(* Nothing is kept from one request to the next.                           *)
(***************************************************************************)
NoBody == [kind |-> "unread", resampled |-> EmptyBag]

\* PIL_OK = FALSE is no state of the running application: the annotation
\* Image.Image of analyze_water_color fails at import when PIL is missing
Init ==
    /\ NUMPY_OK \in BOOLEAN
    /\ PIL_OK = TRUE
    /\ pc = "idle"
    /\ request = None
    /\ body = NoBody
    /\ pixels = EmptyBag
    /\ stats = None
    /\ response = None

Receive ==
    /\ pc = "idle"
    /\ \E req \in Requests : request' = req
    /\ pc' = "received"
    /\ UNCHANGED <<NUMPY_OK, PIL_OK, body, pixels, stats, response>>

\* the handler returns before file.read()
Reject(resp) ==
    /\ response' = add_cors_headers(resp)
    /\ UNCHANGED <<body, pixels, stats>>

\* lines 182-190: the try block, on the bytes b of the uploaded file
TryAnalyze(b) ==
    /\ body' = b
    /\ IF b.kind = "not_an_image"
       THEN /\ response' = add_cors_headers(
                   Jsonify([error |-> "Analysis failed: cannot identify image file"], 500))
            /\ UNCHANGED <<pixels, stats>>
       ELSE IF b.kind = "truncated"
       THEN /\ response' = add_cors_headers(
                   Jsonify([error |-> "Analysis failed: image file is truncated"], 500))
            /\ UNCHANGED <<pixels, stats>>
       ELSE \E out \in analyze_water_color(b.resampled) :
              /\ pixels' = b.resampled
              /\ stats' = out.locals
              /\ response' = add_cors_headers(
                     IF out.raised
                     THEN Jsonify([error |-> "Analysis failed: " \o out.error], 500)
                     ELSE Jsonify(out.result, 200))

\* POST /analyze
Analyze ==
    /\ pc = "received"
    /\ request.method = "POST" /\ request.path = "/analyze"
    /\ pc' = "done"
    /\ UNCHANGED <<NUMPY_OK, PIL_OK, request>>
    /\ IF ~NUMPY_OK
       THEN Reject(Jsonify([error |-> "numpy not installed. Run: pip install numpy"], 500))
       ELSE IF ~PIL_OK
       THEN Reject(Jsonify([error |-> "Pillow not installed. Run: pip install Pillow"], 500))
       ELSE IF "image" \notin DOMAIN request.files
       THEN Reject(Jsonify([error |-> "No image file provided"], 400))
       ELSE IF request.files["image"].filename = << >>
       THEN Reject(Jsonify([error |-> "No file selected"], 400))
       ELSE IF ~allowed_file(request.files["image"].filename)
       THEN Reject(Jsonify([error |-> "Unsupported file type. Use: png, jpg, jpeg, webp, bmp"], 400))
       ELSE \E b \in Bodies : TryAnalyze(b)

\* GET /health
Health ==
    /\ pc = "received"
    /\ request.method = "GET" /\ request.path = "/health"
    /\ pc' = "done"
    /\ Reject(Jsonify([status |-> "ok", service |-> "OceanEye",
                       numpy |-> NUMPY_OK, pillow |-> PIL_OK,
                       ready |-> NUMPY_OK /\ PIL_OK, version |-> "1.0.0"], 200))
    /\ UNCHANGED <<NUMPY_OK, PIL_OK, request>>

\* OPTIONS on any path
HandleOptions ==
    /\ pc = "received"
    /\ request.method = "OPTIONS"
    /\ pc' = "done"
    /\ Reject(Jsonify([k \in {} |-> None], 200))
    /\ UNCHANGED <<NUMPY_OK, PIL_OK, request>>

\* the response is sent; the locals of the call are gone
Deliver ==
    /\ pc = "done"
    /\ pc' = "idle"
    /\ request' = None
    /\ body' = NoBody
    /\ pixels' = EmptyBag
    /\ stats' = None
    /\ response' = None
    /\ UNCHANGED <<NUMPY_OK, PIL_OK>>

Next == Receive \/ Analyze \/ Health \/ HandleOptions \/ Deliver

Spec == Init /\ [][Next]_vars

(***************************************************************************)
(* Vocabulary of the properties.                                           *)
(***************************************************************************)
\* POST /analyze has been handled and its response is in `response`
Handled == pc = "done" /\ request.method = "POST" /\ request.path = "/analyze"

\* ... and analyze_water_color returned: `stats` holds its locals
Classified == Handled /\ response.status = 200

Levels == {"CLEAN", "MILD", "MODERATE", "HIGH", "SEVERE", "CRITICAL"}

\* the conditions of the decision table of the specification, on the locals
Rule(k, st) ==
    CASE k = 1 -> \/ st.dark_pixels * 100 > 35 * st.total_pixels
                  \/ (st.brightness < 200 /\ st.saturation > 100)
      [] k = 2 -> st.red_dominant \/ st.hue_deg > 345 \/ st.hue_deg < 15
      [] k = 3 -> \/ st.brown_like
                  \/ (st.hue_deg \in 26..49 /\ st.saturation > 250)
      [] k = 4 -> st.hue_deg \in 56..99 /\ st.saturation > 300
      [] k = 5 -> st.hue_deg \in 101..159 /\ st.saturation > 200
      [] k = 6 -> TRUE

LevelOfRule ==
    <<"CRITICAL", "SEVERE", "HIGH", "MODERATE", "MILD", "CLEAN">>

FirstRule(st) == CHOOSE k \in 1..6 : Rule(k, st) /\ \A j \in 1..(k - 1) : ~Rule(j, st)

\* number of pixels of the bag px that satisfy Test
CountWhere(px, Test(_)) ==
    LET S == {p \in BagToSet(px) : Test(p)}
    IN  BagCardinality([p \in S |-> px[p]])

IsDark(p) == p[1] < 50 /\ p[2] < 50 /\ p[3] < 50

IsValid(p) == p[1] > 10 \/ p[2] > 10 \/ p[3] > 10

\* a is the mean of channel ch over the pixels of px that satisfy Test,
\* truncated to an integer
IsTruncatedMean(a, px, ch, Test(_)) ==
    LET S   == {p \in BagToSet(px) : Test(p)}
        sub == [p \in S |-> px[p]]
        n   == BagCardinality(sub)
        sum == SumOver(sub, S, ch)
    IN  n > 0 /\ a * n <= sum /\ sum < (a + 1) * n

Anything(p) == TRUE

Uniform(c) == Block(c, NPixels)

(***************************************************************************)
(* C1.  The decision table is evaluated top to bottom, first match wins:   *)
(* the level returned is that of the lowest-numbered rule whose condition  *)
(* holds of the computed statistics; in particular it is CRITICAL whenever *)
(* rule 1 holds, whatever later rules hold too.                            *)
(***************************************************************************)
C1_FirstMatchWins ==
    Classified =>
        /\ response.json.pollution_level = LevelOfRule[FirstRule(stats)]
        /\ (Rule(1, stats) => response.json.pollution_level = "CRITICAL")

\* rule 1 and rule 2 both hold (by the hue test and by red dominance)
C1_Witness ==
    /\ Classified
    /\ Rule(1, stats) /\ stats.red_dominant /\ stats.hue_deg < 15
    /\ response.json.pollution_level = "CRITICAL"

(***************************************************************************)
(* C2.  Totality: every image is classified; the call raises nothing and   *)
(* the level is one of the six values.                                     *)
(***************************************************************************)
C2_Totality ==
    (Handled /\ body.kind = "image") =>
        /\ response.status = 200
        /\ response.json.pollution_level \in Levels

\* an image that matches no rule but the last
C2_Witness ==
    /\ Classified
    /\ body.kind = "image"
    /\ \A k \in 1..5 : ~Rule(k, stats)
    /\ response.json.pollution_level = "CLEAN"

(***************************************************************************)
(* C3.  Verdict consistency: confidence, contamination_type, description   *)
(* and recommendation are a fixed function of the level; avg_rgb,          *)
(* dominant_color, avg_hue, avg_saturation and avg_brightness are the      *)
(* statistics computed from the image.                                     *)
(***************************************************************************)
PerLevel(level) ==
    CASE level = "CRITICAL" ->
           [confidence |-> 90, contamination_type |-> "Oil Spill / Chemical Dumping",
            description |-> "Critical pollution detected. Extremely dark water indicates oil spill or heavy chemical contamination. Immediate intervention required.",
            recommendation |-> "Alert Coast Guard & Environmental Agencies Immediately"]
      [] level = "SEVERE" ->
           [confidence |-> 87, contamination_type |-> "Red Tide / Toxic Algal Bloom",
            description |-> "Severe pollution detected. Red-tinted water indicates harmful algal bloom (Red Tide) - toxic to marine life and humans.",
            recommendation |-> "Avoid water contact. Notify environmental protection agencies."]
      [] level = "HIGH" ->
           [confidence |-> 82, contamination_type |-> "Sewage / Industrial Sediment",
            description |-> "High pollution detected. Brown/murky water suggests heavy sediment load, sewage discharge, or industrial waste runoff.",
            recommendation |-> "Conduct water sampling. Report to water authority."]
      [] level = "MODERATE" ->
           [confidence |-> 80, contamination_type |-> "Eutrophication (Nutrient Overload)",
            description |-> "Moderate pollution. Yellow-green color indicates eutrophication from agricultural runoff or sewage - reduces oxygen in water.",
            recommendation |-> "Monitor regularly. Reduce nutrient discharge upstream."]
      [] level = "MILD" ->
           [confidence |-> 78, contamination_type |-> "Algal Growth / Chlorophyll Increase",
            description |-> "Mild pollution detected. Green tint indicates early algal growth caused by excess nutrients. Still manageable.",
            recommendation |-> "Schedule monitoring. Investigate nearby discharge points."]
      [] level = "CLEAN" ->
           [confidence |-> 88, contamination_type |-> "None Detected",
            description |-> "Water appears healthy. Clear blue color indicates good water quality with normal oxygen levels and low contamination.",
            recommendation |-> "Continue regular environmental monitoring."]

C3_VerdictConsistency ==
    Classified =>
        LET v   == response.json
            fix == PerLevel(v.pollution_level)
            hsv == rgb_to_hsv(v.avg_rgb[1], v.avg_rgb[2], v.avg_rgb[3])
            avg(ch) == IF CountWhere(pixels, IsValid) = 0
                       THEN IsTruncatedMean(v.avg_rgb[ch], pixels, ch, Anything)
                       ELSE IsTruncatedMean(v.avg_rgb[ch], pixels, ch, IsValid)
        IN  /\ v.confidence = fix.confidence
            /\ v.contamination_type = fix.contamination_type
            /\ v.description = fix.description
            /\ v.recommendation = fix.recommendation
            /\ avg(1) /\ avg(2) /\ avg(3)
            /\ v.avg_rgb = <<stats.avg_r, stats.avg_g, stats.avg_b>>
            /\ v.dominant_color = stats.dominant_hex
            /\ v.avg_hue = stats.hue_deg /\ v.avg_hue \in Round(hsv.hn, hsv.hd)
            /\ v.avg_saturation = stats.saturation
            /\ v.avg_saturation \in Round(hsv.sn, hsv.sd)
            /\ v.avg_brightness = stats.brightness
            /\ v.avg_brightness \in Round(hsv.vn, hsv.vd)

\* a CRITICAL verdict (by the dark ratio) that reports the bright, saturated
\* colour of the image, not a dark one
C3_Witness ==
    /\ Classified
    /\ response.json.pollution_level = "CRITICAL"
    /\ response.json.confidence = 90
    /\ response.json.avg_brightness > 700
    /\ response.json.avg_saturation # response.json.avg_brightness
    /\ response.json.avg_rgb = <<100, 150, 200>>

(***************************************************************************)
(* C4.  Fallback path: when no pixel has a channel above 10 the means are  *)
(* taken over all the pixels, never over none; the call does not fail; for *)
(* the all-black image avg_rgb is [0,0,0], the dark ratio is 1 and the     *)
(* level is CRITICAL.                                                      *)
(***************************************************************************)
C4_FallbackPath ==
    (Handled /\ body.kind = "image" /\ CountWhere(body.resampled, IsValid) = 0) =>
        /\ response.status = 200
        /\ \A ch \in 1..3 :
              IsTruncatedMean(response.json.avg_rgb[ch], pixels, ch, Anything)
        /\ (pixels = Uniform(<<0, 0, 0>>) =>
              /\ response.json.avg_rgb = <<0, 0, 0>>
              /\ stats.dark_pixels = stats.total_pixels
              /\ response.json.pollution_level = "CRITICAL")

C4_Witness ==
    /\ Classified
    /\ pixels = Uniform(<<0, 0, 0>>)
    /\ CountWhere(pixels, IsValid) = 0
    /\ response.json.avg_rgb = <<0, 0, 0>>
    /\ stats.dark_pixels = NPixels
    /\ response.json.pollution_level = "CRITICAL"

(***************************************************************************)
(* C5.  Transport contract of POST /analyze: one JSON response per         *)
(* request; 200 only for an 'image' file with a non-empty name, an allowed *)
(* extension and no exception in decoding and classification; non-image    *)
(* content types and unsupported extensions are rejected with an error     *)
(* response; a decode or classification failure is answered 4xx/5xx with   *)
(* an 'error' message.                                                     *)
(***************************************************************************)
IsErrorResponse ==
    /\ response.status \in 400..599
    /\ "error" \in DOMAIN response.json

HasAllowedExtension(filename) ==
    \E ext \in ALLOWED_EXTENSIONS :
        /\ Len(filename) > Len(ext)
        /\ filename[Len(filename) - Len(ext)] = "."
        /\ Lower(SubSeq(filename, Len(filename) - Len(ext) + 1, Len(filename))) = ext

ImageContentTypes == {"image/png"}

C5_TransportContract ==
    Handled =>
        /\ response.mimetype = "application/json"
        /\ (response.status = 200 =>
              /\ "image" \in DOMAIN request.files
              /\ request.files["image"].filename # << >>
              /\ HasAllowedExtension(request.files["image"].filename)
              /\ body.kind = "image"
              /\ response.json.pollution_level \in Levels)
        /\ ("image" \in DOMAIN request.files =>
              /\ (request.files["image"].content_type \notin ImageContentTypes
                    => IsErrorResponse)
              /\ (~HasAllowedExtension(request.files["image"].filename)
                    => IsErrorResponse))
        /\ (body.kind \in {"not_an_image", "truncated"} => IsErrorResponse)

(***************************************************************************)
(* C6.  Brown sediment case: for the average colour (140,90,50)            *)
(* red_dominant is true, and so is brown_like; with no dark pixel and      *)
(* brightness 0.549 rule 2 is the first that matches: SEVERE, not HIGH.    *)
(***************************************************************************)
C6_BrownSediment ==
    (Classified /\ response.json.avg_rgb = <<140, 90, 50>>) =>
        /\ stats.red_dominant
        /\ stats.brown_like
        /\ stats.brightness = 549
        /\ (stats.dark_pixels * 100 <= 35 * stats.total_pixels
              => response.json.pollution_level = "SEVERE")

C6_Witness ==
    /\ Classified
    /\ pixels = Uniform(<<140, 90, 50>>)
    /\ response.json.avg_rgb = <<140, 90, 50>>
    /\ stats.dark_pixels = 0
    /\ stats.brown_like
    /\ response.json.pollution_level = "SEVERE"

(***************************************************************************)
(* C7.  Clean water scenario: the uniform image (100,150,200) has avg_rgb  *)
(* [100,150,200], hue 210, matches none of rules 1 to 5 and is CLEAN with  *)
(* confidence 0.88 and dominant_color "#6496c8"; the hex digits are lower  *)
(* case and zero-padded ((5,10,255) gives "#050aff").                      *)
(***************************************************************************)
C7_CleanWater ==
    /\ (Classified /\ pixels = Uniform(<<100, 150, 200>>)) =>
          /\ response.json.avg_rgb = <<100, 150, 200>>
          /\ response.json.avg_hue = 210
          /\ \A k \in 1..5 : ~Rule(k, stats)
          /\ response.json.pollution_level = "CLEAN"
          /\ response.json.confidence = 88
          /\ response.json.dominant_color = "#6496c8"
    /\ (Classified /\ response.json.avg_rgb = <<5, 10, 255>>) =>
          response.json.dominant_color = "#050aff"

C7_Witness ==
    /\ Classified
    /\ pixels = Uniform(<<100, 150, 200>>)
    /\ response.json.pollution_level = "CLEAN"
    /\ response.json.dominant_color = "#6496c8"
    /\ response.json.avg_saturation = 500
    /\ response.json.avg_brightness = 784

(***************************************************************************)
(* C8.  Ranges: avg_hue is an integer in [0,360], every entry of avg_rgb   *)
(* is in 0..255, avg_saturation and avg_brightness are in [0,1]; the       *)
(* average colour (255,0,1) has hue 360, which counts as hue > 345.        *)
(***************************************************************************)
C8_StatisticRanges ==
    Classified =>
        /\ response.json.avg_hue \in 0..360
        /\ \A ch \in 1..3 : response.json.avg_rgb[ch] \in 0..255
        /\ response.json.avg_saturation \in 0..1000
        /\ response.json.avg_brightness \in 0..1000
        /\ (response.json.avg_rgb = <<255, 0, 1>> =>
              /\ response.json.avg_hue = 360
              /\ Rule(2, stats)
              /\ response.json.pollution_level \in {"SEVERE", "CRITICAL"})

C8_Witness ==
    /\ Classified
    /\ response.json.avg_rgb = <<255, 0, 1>>
    /\ response.json.avg_hue = 360
    /\ response.json.pollution_level = "SEVERE"

(***************************************************************************)
(* C9.  The hue tests exclude their boundaries: when rule 1 does not match *)
(* and red_dominant and brown_like are false, a hue in 15..25, 50..55,     *)
(* 100 or 160..345 gives CLEAN whatever the saturation.                    *)
(***************************************************************************)
BoundaryHues == (15..25) \cup (50..55) \cup {100} \cup (160..345)

C9_HueBoundariesExcluded ==
    (/\ Classified
     /\ ~Rule(1, stats) /\ ~stats.red_dominant /\ ~stats.brown_like
     /\ stats.hue_deg \in BoundaryHues)
        => response.json.pollution_level = "CLEAN"

\* hue exactly 25 with a saturation that rule 3 would accept
C9_Witness ==
    /\ Classified
    /\ ~Rule(1, stats) /\ ~stats.red_dominant /\ ~stats.brown_like
    /\ stats.hue_deg = 25 /\ stats.saturation > 250
    /\ response.json.pollution_level = "CLEAN"

(***************************************************************************)
(* C10.  The dark ratio is taken over all 40000 pixels, the average colour *)
(* over the valid pixels only (when there is one): near-black pixels count *)
(* as dark but do not enter avg_rgb, and an image with more than 35% dark  *)
(* pixels is CRITICAL whatever the other pixels are.                       *)
(***************************************************************************)
C10_DarkRatioOverAllPixels ==
    Classified =>
        /\ stats.total_pixels = 40000
        /\ stats.dark_pixels = CountWhere(pixels, IsDark)
        /\ (CountWhere(pixels, IsValid) > 0 =>
              \A ch \in 1..3 :
                 IsTruncatedMean(response.json.avg_rgb[ch], pixels, ch, IsValid))
        /\ (CountWhere(pixels, IsDark) * 100 > 35 * 40000 =>
              response.json.pollution_level = "CRITICAL")

\* 14001 black pixels around clean water: the average is the water's colour
C10_Witness ==
    /\ Classified
    /\ CountWhere(pixels, IsDark) = 14001
    /\ CountWhere(pixels, IsValid) = 25999
    /\ response.json.avg_rgb = <<100, 150, 200>>
    /\ \A k \in 2..5 : ~Rule(k, stats)
    /\ response.json.pollution_level = "CRITICAL"

====
